---- MODULE Spec2Model ----
(***************************************************************************)
(* Model of RTreeAccess3D (src/rtree/rtree3d.rs): the SpatialAccess        *)
(* implementation that keeps (Vec3, Entity) points in an rstar RTree.      *)
(*                                                                         *)
(* Coordinates are f32 triples in the code; the model uses integer         *)
(* triples, on which squaring and comparison are exact.  The RTree is      *)
(* modelled by its contents (a multiset of EntityPoint3D) plus the element *)
(* counter it keeps; whatever depends on the order of the entries in a     *)
(* node (which of several equal candidates a removal takes, how ties in    *)
(* distance are ordered) is a nondeterministic choice.  The trees of the   *)
(* model hold fewer entries than a node does (DefaultParams: 6), so every  *)
(* tree is its root node alone and the only envelope a removal is pruned   *)
(* by is the root's.                                                       *)
(***************************************************************************)
EXTENDS Integers, Sequences, FiniteSets

VARIABLES tree, min_moved, recreate_after, key_vec, ret, old, pos, calls

vars == <<tree, min_moved, recreate_after, key_vec, ret, old, pos, calls>>

----------------------------------------------------------------------------
(* Bounds of the model *)

\* AddPoint is not taken once the tree holds this many entries.
MaxSize == 3
\* recreate is called with at most this many points.
MaxRecreate == 2
\* k ranges over 0..MaxK.
MaxK == 3
\* The radius ranges over -MaxRadius..MaxRadius.
MaxRadius == 2
\* The driver takes no frame that would leave more than this many entries
\* beyond one per tracked entity in the tree.
MaxStale == 1

\* Entity identifiers are opaque; three of them.
Entities == {1, 2, 3}
\* The entities that calls made directly on the interface name.
CallEntities == {1, 2}
\* Coordinates that points are stored at.
Points == {<<0, 0, 0>>, <<2, 0, 0>>, <<0, 0, 2>>}
\* Locations that queries are asked for.
QueryLocs == Points \cup {<<1, 0, 0>>}
\* Configurations an index is constructed with.  Between the coordinates
\* above the squared displacements are 4 and 8: at and above a threshold
\* of 4, below and above a threshold of 5.
Configs == {[min_moved |-> 5, recreate_after |-> 1],
            [min_moved |-> 4, recreate_after |-> 2]}
\* Coordinates the key of a removal by entity may carry: the origin or
\* another one.
KeyVecs == {<<0, 0, 0>>, <<2, 0, 0>>}

----------------------------------------------------------------------------
(* Points *)

\* EntityPoint3D { vec, entity }, the element type of the tree.
EntityPoints == [vec : Points, entity : Entities]

\* The (Vec3, Entity) pairs of the SpatialAccess interface.
Pairs == Points \X Entities
\* The pairs that calls made directly on the interface pass.
CallPairs == Points \X CallEntities

\* point.into(): (Vec3, Entity) -> EntityPoint3D, used as element and as
\* the key of remove_point.
point_into(point) == [vec |-> point[1], entity |-> point[2], by |-> "point"]

\* entity.into(): Entity -> EntityPoint3D, the key of remove_entity.  The
\* conversion sees the entity only, so the coordinate of the key is one
\* fixed coordinate (key_vec), whatever coordinate the entity is stored at.
entity_into(entity) == [vec |-> key_vec, entity |-> entity, by |-> "entity"]

\* Equality of a stored element with a removal key: coordinate and entity
\* for a key made from a point, the entity alone for a key made from an
\* entity.
eq(leaf, key) ==
    /\ leaf.entity = key.entity
    /\ (key.by = "point" => leaf.vec = key.vec)

\* The element a point key stands for.
element(key) == [vec |-> key.vec, entity |-> key.entity]

\* RTreeObject::envelope of EntityPoint3D: AABB::from_point(self.vec)
envelope(p) == [lower |-> p.vec, upper |-> p.vec]

\* AABB::contains_envelope
contains_envelope(outer, inner) ==
    \A i \in 1..3 : outer.lower[i] <= inner.lower[i]
                      /\ inner.upper[i] <= outer.upper[i]

\* |e| (e.vec, e.entity)
to_pair(e) == <<e.vec, e.entity>>

\* Vec3::distance_squared
vec3_distance_squared(a, b) ==
    (a[1] - b[1]) * (a[1] - b[1]) + (a[2] - b[2]) * (a[2] - b[2])
        + (a[3] - b[3]) * (a[3] - b[3])

\* SpatialAccess::distance_squared
distance_squared(loc_a, loc_b) == vec3_distance_squared(loc_a, loc_b)

\* distance_2 as a 2d tree computes it, discarding z.
distance_2_flat(p, point) ==
    (p.vec[1] - point[1]) * (p.vec[1] - point[1])
        + (p.vec[2] - point[2]) * (p.vec[2] - point[2])

\* PointDistance::distance_2 of EntityPoint3D
distance_2(p, point) == vec3_distance_squared(p.vec, point)

\* f32::powi(2)
powi2(x) == x * x

----------------------------------------------------------------------------
(* The RTree: contents (element -> number of copies) and element counter *)

RECURSIVE SumOver(_, _)
SumOver(S, f) ==
    IF S = {} THEN 0
    ELSE LET x == CHOOSE y \in S : TRUE IN f[x] + SumOver(S \ {x}, f)

\* Number of entries held, counted from the contents.
Entries(t) == SumOver(EntityPoints, t.root)

\* Number of entries of one entity.
EntriesOf(t, e) == SumOver({p \in EntityPoints : p.entity = e}, t.root)

\* The elements present at least once.
Present(t) == {p \in EntityPoints : t.root[p] > 0}

\* The entities with at least one entry.
EntitiesIn(t) == {p.entity : p \in Present(t)}

\* RTree::new()
EmptyTree == [root |-> [p \in EntityPoints |-> 0], size |-> 0]

\* RTree::bulk_load_with_params(elements)
bulk_load(elements) ==
    [root |-> [p \in EntityPoints |->
                  Cardinality({i \in DOMAIN elements : elements[i] = p})],
     size |-> Len(elements)]

\* RTree::insert(t)
insert(t, p) == [root |-> [t.root EXCEPT ![p] = @ + 1], size |-> t.size + 1]

\* The least and the greatest of a non-empty set of numbers.
Least(S) == CHOOSE x \in S : \A y \in S : x <= y
Greatest(S) == CHOOSE x \in S : \A y \in S : y <= x

\* The envelope of the root node: the bounding box of the envelopes of the
\* elements held (an empty tree's envelope contains nothing).
root_envelope(t) ==
    LET held == Present(t)
    IN  [lower |-> [i \in 1..3 |-> Least({envelope(p).lower[i] : p \in held})],
         upper |-> [i \in 1..3 |-> Greatest({envelope(p).upper[i] : p \in held})]]

\* RTree::remove(&key): a node is searched only if its envelope contains
\* the envelope of the key; in a searched node one element equal to the key
\* is removed, if there is one.  The outcomes are the tree afterwards and
\* the Option returned.
remove(t, key) ==
    LET held == Present(t)
        found == IF held # {}
                     /\ contains_envelope(root_envelope(t), envelope(key))
                 THEN {p \in held : eq(p, key)}
                 ELSE {}
    IN  IF found = {}
        THEN {[tree |-> t, removed |-> [some |-> FALSE]]}
        ELSE {[tree |-> [root |-> [t.root EXCEPT ![p] = @ - 1],
                         size |-> t.size - 1],
               removed |-> [some |-> TRUE, value |-> p]] : p \in found}

\* RTree::nearest_neighbor_iter(loc): every element, nearest first; the
\* order among elements at the same distance is the tree's.
RECURSIVE nearest_neighbor_iter(_, _)
nearest_neighbor_iter(t, loc) ==
    IF Present(t) = {} THEN {<< >>}
    ELSE LET nearest == {p \in Present(t) : \A q \in Present(t) :
                            distance_2(p, loc) <= distance_2(q, loc)}
         IN  UNION {{<<p>> \o s :
                        s \in nearest_neighbor_iter(
                                [t EXCEPT !.root[p] = @ - 1], loc)} :
                    p \in nearest}

\* RTree::nearest_neighbor(loc)
nearest_neighbor(t, loc) ==
    IF Present(t) = {} THEN {[some |-> FALSE]}
    ELSE {[some |-> TRUE, value |-> s[1]] : s \in nearest_neighbor_iter(t, loc)}

\* RTree::locate_within_distance(loc, max_squared_radius): the elements
\* whose squared distance is at most max_squared_radius, as element ->
\* number of copies (the order of the iterator is the tree's).
locate_within_distance(t, loc, max_squared_radius) ==
    [p \in EntityPoints |->
        IF distance_2(p, loc) <= max_squared_radius THEN t.root[p] ELSE 0]

\* take that yields one element more than asked for.
take_one_more(s, k) == SubSeq(s, 1, IF k + 1 < Len(s) THEN k + 1 ELSE Len(s))

\* Iterator::take(k)
take(s, k) == SubSeq(s, 1, IF k < Len(s) THEN k ELSE Len(s))

----------------------------------------------------------------------------
(* SpatialAccess for RTreeAccess3D *)

\* nearest_neighbour(loc): the possible results.
nearest_neighbour(t, loc) ==
    {IF r.some THEN [some |-> TRUE, value |-> to_pair(r.value)] ELSE r :
        r \in nearest_neighbor(t, loc)}

\* k_nearest_neighbour(loc, k): the possible results.
k_nearest_neighbour(t, loc, k) ==
    {[i \in 1..Len(take(s, k)) |-> to_pair(take(s, k)[i])] :
        s \in nearest_neighbor_iter(t, loc)}

\* within_distance that passes the radius on without squaring it.
within_distance_unsquared(t, loc, distance) ==
    [pr \in Pairs |->
        locate_within_distance(t, loc, distance)[element(point_into(pr))]]

\* within_distance(loc, distance): pair -> number of times it is returned.
within_distance(t, loc, distance) ==
    [pr \in Pairs |->
        locate_within_distance(t, loc, powi2(distance))[element(point_into(pr))]]

\* recreate that loads the points into the tree it already has.
recreate_into(t, all) ==
    [root |-> [p \in EntityPoints |->
                  t.root[p] + Cardinality({i \in DOMAIN all :
                                              element(point_into(all[i])) = p})],
     size |-> t.size + Len(all)]

\* recreate(all)
recreate(t, all) ==
    bulk_load([i \in DOMAIN all |-> element(point_into(all[i]))])

\* add_point(point)
add_point(t, point) == insert(t, element(point_into(point)))

\* remove_point that looks the point up by its entity alone.
remove_point_by_entity(t, point) ==
    {[tree |-> o.tree, res |-> o.removed.some] :
        o \in remove(t, entity_into(point[2]))}

\* remove_point(point): the possible outcomes.
remove_point(t, point) ==
    {[tree |-> o.tree, res |-> o.removed.some] : o \in remove(t, point_into(point))}

\* remove_entity(entity): the possible outcomes.
remove_entity(t, entity) ==
    {[tree |-> o.tree, res |-> o.removed.some] : o \in remove(t, entity_into(entity))}

\* size that counts entities instead of entries.
size_of_entities(t) == Cardinality(EntitiesIn(t))

\* size()
size(t) == t.size

\* get_min_dist that hands out the square of the threshold.
get_min_dist_squared == min_moved * min_moved

\* get_min_dist()
get_min_dist == min_moved

\* get_recreate_after that is off by one.
get_recreate_after_next == recreate_after + 1

\* get_recreate_after()
get_recreate_after == recreate_after

----------------------------------------------------------------------------
(* The index used directly through its interface *)

Snapshots == UNION {[1..n -> CallPairs] : n \in 0..MaxRecreate}

Init ==
    /\ tree = EmptyTree
    /\ min_moved = 4
    /\ recreate_after = 2
    /\ key_vec \in KeyVecs
    /\ ret = [op |-> "new"]
    /\ old = << >>
    /\ pos = << >>
    /\ calls = << >>

Idle == UNCHANGED <<min_moved, recreate_after, key_vec, old, pos, calls>>

NearestNeighbour ==
    \E loc \in QueryLocs : \E r \in nearest_neighbour(tree, loc) :
        /\ ret' = [op |-> "nearest_neighbour", loc |-> loc, res |-> r]
        /\ UNCHANGED tree
        /\ Idle

KNearestNeighbour ==
    \E loc \in QueryLocs : \E k \in 0..MaxK :
      \E r \in k_nearest_neighbour(tree, loc, k) :
        /\ ret' = [op |-> "k_nearest_neighbour", loc |-> loc, k |-> k, res |-> r]
        /\ UNCHANGED tree
        /\ Idle

WithinDistance ==
    \E loc \in QueryLocs : \E distance \in (0 - MaxRadius)..MaxRadius :
        /\ ret' = [op |-> "within_distance", loc |-> loc, distance |-> distance,
                   res |-> within_distance(tree, loc, distance)]
        /\ UNCHANGED tree
        /\ Idle

Recreate ==
    \E all \in Snapshots :
        /\ tree' = recreate(tree, all)
        /\ ret' = [op |-> "recreate", all |-> all,
                   stale |-> \E p \in Present(tree) :
                                \A i \in DOMAIN all : all[i] # to_pair(p)]
        /\ Idle

AddPoint ==
    \E point \in CallPairs :
        /\ Entries(tree) < MaxSize
        /\ tree' = add_point(tree, point)
        /\ ret' = [op |-> "add_point", point |-> point, size_before |-> size(tree)]
        /\ Idle

RemovePoint ==
    \E point \in CallPairs : \E o \in remove_point(tree, point) :
        /\ tree' = o.tree
        /\ ret' = [op |-> "remove_point", point |-> point, res |-> o.res,
                   before |-> tree]
        /\ Idle

RemoveEntity ==
    \E entity \in CallEntities : \E o \in remove_entity(tree, entity) :
        LET after_add == ret.op = "add_point" /\ ret.point[2] = entity
        IN  /\ tree' = o.tree
            /\ ret' = [op |-> "remove_entity", entity |-> entity, res |-> o.res,
                       had |-> EntriesOf(tree, entity),
                       after_add |-> after_add,
                       size_before_pair |->
                           IF after_add THEN ret.size_before ELSE size(tree)]
            /\ Idle

Size ==
    /\ ret' = [op |-> "size", res |-> size(tree)]
    /\ UNCHANGED tree
    /\ Idle

Next ==
    \/ NearestNeighbour
    \/ KNearestNeighbour
    \/ WithinDistance
    \/ Recreate
    \/ AddPoint
    \/ RemovePoint
    \/ RemoveEntity
    \/ Size

Spec == Init /\ [][Next]_vars

----------------------------------------------------------------------------
(* The maintenance driver: one step per frame.                             *)
(* old[e] is the coordinate last committed to the index for e, pos[e] the  *)
(* entity's current position, calls the calls the last frame made on the   *)
(* index, in order.                                                        *)

\* The entities of a set in ascending order, the order a frame visits them.
RECURSIVE in_order(_)
in_order(S) ==
    IF S = {} THEN << >>
    ELSE LET e == CHOOSE x \in S : \A y \in S : x <= y
         IN  <<e>> \o in_order(S \ {e})

\* The full current snapshot of all tracked entities.
snapshot(at) == [i \in 1..Len(in_order(DOMAIN at)) |->
                    <<at[in_order(DOMAIN at)[i]], in_order(DOMAIN at)[i]>>]

\* The entities among the changed ones that are marked moved: those whose
\* squared displacement is not below the movement threshold.
moved_entities(changed, from, to) ==
    {e \in changed : ~(distance_squared(from[e], to[e]) < get_min_dist)}

\* Whether the frame abandons patching for a bulk rebuild.
must_recreate(moved) == Cardinality(moved) > get_recreate_after

\* The point-level patch of one entity: remove_entity, then add_point.
patch(s, e, to) ==
    {[tree |-> add_point(o.tree, <<to[e], e>>),
      calls |-> s.calls \o <<[op |-> "remove_entity", entity |-> e, res |-> o.res],
                             [op |-> "add_point", point |-> <<to[e], e>>]>>] :
        o \in remove_entity(s.tree, e)}

\* The patches of the moved entities, one after the other.
RECURSIVE patch_all(_, _, _)
patch_all(states, es, to) ==
    IF es = << >> THEN states
    ELSE patch_all(UNION {patch(s, Head(es), to) : s \in states}, Tail(es), to)

\* What one frame does to the index, and the calls it makes.
update_moved(t, changed, from, to) ==
    LET moved == moved_entities(changed, from, to)
    IN  IF must_recreate(moved)
        THEN {[tree |-> recreate(t, snapshot(to)),
               calls |-> <<[op |-> "recreate", all |-> snapshot(to)]>>]}
        ELSE patch_all({[tree |-> t, calls |-> << >>]}, in_order(moved), to)

InitDriver ==
    /\ \E c \in Configs : min_moved = c.min_moved
                          /\ recreate_after = c.recreate_after
    /\ key_vec \in KeyVecs
    /\ pos \in [Entities -> Points]
    /\ old = pos
    /\ tree = recreate(EmptyTree, snapshot(pos))
    /\ ret = [op |-> "new"]
    /\ calls = << >>

\* The new positions a frame may observe for the entities that changed
\* position: each differs from the entity's position so far.
observed(changed) ==
    {to \in [changed -> Points] : \A e \in changed : to[e] # pos[e]}

Frame ==
    \E changed \in SUBSET Entities : \E to \in observed(changed) :
      LET now == [e \in Entities |-> IF e \in changed THEN to[e] ELSE pos[e]]
          moved == moved_entities(changed, old, now)
      IN  \E o \in update_moved(tree, changed, old, now) :
            /\ size(o.tree) <= Cardinality(Entities) + MaxStale
            /\ tree' = o.tree
            /\ calls' = o.calls
            /\ pos' = now
            /\ old' = [e \in Entities |->
                          IF must_recreate(moved) \/ e \in moved
                          THEN now[e] ELSE old[e]]
            /\ ret' = [op |-> "frame", changed |-> changed,
                       from |-> [e \in changed |-> old[e]],
                       kept |-> {e \in Entities : \A c \in Points :
                                    o.tree.root[[vec |-> c, entity |-> e]]
                                        = tree.root[[vec |-> c, entity |-> e]]}]
            /\ UNCHANGED <<min_moved, recreate_after, key_vec>>

NextDriver == Frame

SpecDriver == InitDriver /\ [][NextDriver]_vars

----------------------------------------------------------------------------
(* Properties of the interface, checked under Spec *)

\* The element of the tree a (Vec3, Entity) pair denotes.
Elem(pr) == [vec |-> pr[1], entity |-> pr[2]]

\* How often a pair occurs in a sequence of pairs.
Occurrences(seq, pr) == Cardinality({i \in DOMAIN seq : seq[i] = pr})

\* The entities that have more than one entry.
Duplicated(t) == {e \in Entities : EntriesOf(t, e) > 1}

\* C1 as stated: size() equals the number of distinct entity identifiers
\* that have an entry in the tree.
C1_SizeIsDistinctEntities == size(tree) = Cardinality(EntitiesIn(tree))

\* C1 amended: size() equals the number of entries of the tree, an entity
\* with several entries counted once per entry; it equals the number of
\* distinct entities exactly when no entity has more than one entry.
C1_SizeCountsEntries ==
    /\ size(tree) = Entries(tree)
    /\ (size(tree) = Cardinality(EntitiesIn(tree))) <=> (Duplicated(tree) = {})

\* C1: size() has answered 2 for a tree with two entries of one entity.
C1_Witness ==
    /\ ret.op = "size"
    /\ ret.res = 2
    /\ Cardinality(EntitiesIn(tree)) = 1

\* C2 as stated: remove_entity(e) returns true whenever e had an entry,
\* afterwards the tree holds no entry for e, and it returns false only when
\* e had no entry.
C2_RemoveEntityClears ==
    ret.op = "remove_entity" =>
        /\ (ret.had > 0 => ret.res /\ EntriesOf(tree, ret.entity) = 0)
        /\ (~ret.res => ret.had = 0)

\* C3 as stated: add_point(p) followed immediately by
\* remove_entity(p.entity) returns true and leaves size() at its value
\* before the pair.
C3_AddThenRemoveEntity ==
    (ret.op = "remove_entity" /\ ret.after_add) =>
        /\ ret.res
        /\ size(tree) = ret.size_before_pair

\* The indexed points whose distance to loc is at most r, with their
\* multiplicities: none when r is negative.
WithinRadius(t, loc, r) ==
    [pr \in Pairs |->
        IF r >= 0 /\ distance_squared(pr[1], loc) <= r * r
        THEN t.root[Elem(pr)] ELSE 0]

\* C4 as stated: for every radius r, negative ones included,
\* within_distance(q, r) returns exactly the indexed points whose distance
\* to q is at most r.
C4_WithinDistanceExact ==
    ret.op = "within_distance" =>
        ret.res = WithinRadius(tree, ret.loc, ret.distance)

\* C4 amended: within_distance(q, r) returns exactly the indexed points
\* whose squared distance to q is at most r * r: for r >= 0 those at
\* distance at most r, for negative r those at distance at most -r.
C4_WithinDistanceSquared ==
    ret.op = "within_distance" =>
        ret.res = WithinRadius(tree, ret.loc,
                               IF ret.distance < 0 THEN 0 - ret.distance
                               ELSE ret.distance)

\* C4: a negative radius has returned one indexed point and left another
\* one out.
C4_Witness ==
    /\ ret.op = "within_distance"
    /\ ret.distance < 0
    /\ \E pr \in Pairs : ret.res[pr] > 0
    /\ \E pr \in Pairs : ret.res[pr] = 0 /\ tree.root[Elem(pr)] > 0

\* C5: k_nearest_neighbour(q, k) returns min(k, size()) indexed points in
\* order of non-decreasing distance from q, and no indexed point left out
\* is strictly closer to q than a returned one.
C5_KNearest ==
    ret.op = "k_nearest_neighbour" =>
        LET r == ret.res
            d(i) == distance_squared(r[i][1], ret.loc)
        IN  /\ Len(r) = IF ret.k < size(tree) THEN ret.k ELSE size(tree)
            /\ \A i \in 1..(Len(r) - 1) : d(i) <= d(i + 1)
            /\ \A pr \in Pairs : Occurrences(r, pr) <= tree.root[Elem(pr)]
            /\ \A pr \in Pairs :
                  Occurrences(r, pr) < tree.root[Elem(pr)] =>
                      \A i \in 1..Len(r) :
                          d(i) <= distance_squared(pr[1], ret.loc)

\* C5: two of three indexed points have been returned, the second farther
\* than the first, and the point left out farther still or as far.
C5_Witness ==
    /\ ret.op = "k_nearest_neighbour"
    /\ ret.k = 2
    /\ size(tree) = 3
    /\ Len(ret.res) = 2
    /\ distance_squared(ret.res[1][1], ret.loc)
          < distance_squared(ret.res[2][1], ret.loc)

\* C6: nearest_neighbour(q) returns none exactly when the index is empty,
\* and otherwise an indexed pair at least as close to q as every indexed
\* point.
C6_Nearest ==
    ret.op = "nearest_neighbour" =>
        /\ ~ret.res.some <=> size(tree) = 0
        /\ ret.res.some =>
              /\ tree.root[Elem(ret.res.value)] > 0
              /\ \A p \in Present(tree) :
                    distance_squared(ret.res.value[1], ret.loc)
                        <= distance_squared(p.vec, ret.loc)

\* C6: the nearest of several points at different distances was returned,
\* and it differs from the query location only in z from a farther one.
C6_Witness ==
    /\ ret.op = "nearest_neighbour"
    /\ ret.res.some
    /\ \E p \in Present(tree) :
          /\ p.vec[1] = ret.res.value[1][1]
          /\ p.vec[2] = ret.res.value[1][2]
          /\ distance_squared(ret.res.value[1], ret.loc)
                < distance_squared(p.vec, ret.loc)

\* C7: after recreate(S) the index holds exactly the points of S, each as
\* often as S lists it, size() is the length of S, and every query answers
\* as on an index freshly built from S.
C7_RecreateReplaces ==
    ret.op = "recreate" =>
        /\ \A pr \in Pairs : tree.root[Elem(pr)] = Occurrences(ret.all, pr)
        /\ size(tree) = Len(ret.all)
        /\ \A loc \in QueryLocs :
              /\ nearest_neighbour(tree, loc)
                    = nearest_neighbour(recreate(EmptyTree, ret.all), loc)
              /\ \A k \in 0..MaxK :
                    k_nearest_neighbour(tree, loc, k)
                        = k_nearest_neighbour(recreate(EmptyTree, ret.all), loc, k)
              /\ \A r \in (0 - MaxRadius)..MaxRadius :
                    within_distance(tree, loc, r)
                        = within_distance(recreate(EmptyTree, ret.all), loc, r)

\* C7: recreate was called with points while the tree held an entry that
\* is not among them.
C7_Witness ==
    /\ ret.op = "recreate"
    /\ ret.stale
    /\ Len(ret.all) > 0

\* C8: remove_point((c, e)) returns true and removes exactly one entry of e
\* at c when the tree holds one; otherwise it returns false and leaves the
\* contents and size() as they were.
C8_RemovePoint ==
    ret.op = "remove_point" =>
        LET p == Elem(ret.point)
        IN  IF ret.before.root[p] > 0
            THEN /\ ret.res
                 /\ tree.root = [ret.before.root EXCEPT ![p] = @ - 1]
                 /\ size(tree) = size(ret.before) - 1
            ELSE /\ ~ret.res
                 /\ tree.root = ret.before.root
                 /\ size(tree) = size(ret.before)

\* C8: remove_point was called for an entity that is stored at another
\* coordinate only, and returned false.
C8_Witness ==
    /\ ret.op = "remove_point"
    /\ ~ret.res
    /\ EntriesOf(ret.before, ret.point[2]) > 0
    /\ EntriesOf(tree, ret.point[2]) > 0

----------------------------------------------------------------------------
(* Properties of the maintenance driver, checked under SpecDriver *)

\* The squared displacement of a changed entity in the last frame.
Displacement(e) == distance_squared(ret.from[e], pos[e])

\* The changed entities whose displacement reaches the threshold.
Reached == {e \in ret.changed : Displacement(e) >= min_moved}

\* The positions in calls of the calls of one kind.
CallsOf(op) == {i \in DOMAIN calls : calls[i].op = op}

\* The calls of the last frame that patch entity e.
PatchCalls(e) ==
    {i \in DOMAIN calls :
        \/ calls[i].op = "remove_entity" /\ calls[i].entity = e
        \/ calls[i].op = "add_point" /\ calls[i].point[2] = e}

\* C9: in a frame in which more than recreate_after entities reach the
\* movement threshold, exactly one recreate call is made, with the current
\* position of every tracked entity, and no remove_entity or add_point
\* call is made.
C9_RecreateOnce ==
    (ret.op = "frame" /\ Cardinality(Reached) > recreate_after) =>
        /\ Cardinality(CallsOf("recreate")) = 1
        /\ \A i \in CallsOf("recreate") :
              /\ Len(calls[i].all) = Cardinality(Entities)
              /\ \A e \in Entities : Occurrences(calls[i].all, <<pos[e], e>>) = 1
        /\ CallsOf("remove_entity") = {}
        /\ CallsOf("add_point") = {}
        /\ \A e \in Entities :
              /\ EntriesOf(tree, e) = 1
              /\ tree.root[Elem(<<pos[e], e>>)] = 1

\* C9: three entities reached the threshold in one frame while
\* recreate_after is 2, and the frame made a single call.
C9_Witness ==
    /\ ret.op = "frame"
    /\ recreate_after = 2
    /\ Cardinality(Reached) = 3
    /\ Len(calls) = 1

\* Whether the entries of entity e are where they were before the frame.
EntriesKept(e) == e \in ret.kept

\* What the last frame did for a changed entity below the threshold: no
\* call patches it, and if stays holds its entries are untouched, one of
\* them at the last committed coordinate.
LeftAlone(e, stays) ==
    /\ PatchCalls(e) = {}
    /\ stays =>
          /\ old[e] = ret.from[e]
          /\ EntriesKept(e)
          /\ tree.root[Elem(<<ret.from[e], e>>)] >= 1

\* What the last frame did for a moved entity when it patches: one
\* remove_entity call for it, directly followed by the one add_point call
\* of its new position, which is then committed and in the tree.
Patched(e) ==
    /\ Cardinality(PatchCalls(e)) = 2
    /\ \E i \in DOMAIN calls :
          /\ i + 1 \in DOMAIN calls
          /\ calls[i].op = "remove_entity"
          /\ calls[i].entity = e
          /\ calls[i + 1] = [op |-> "add_point", point |-> <<pos[e], e>>]
    /\ old[e] = pos[e]
    /\ tree.root[Elem(<<pos[e], e>>)] >= 1

\* C10 as stated: a changed entity whose squared displacement is below
\* min_moved is not patched, does not count as moved, and its index entry
\* stays at the last committed coordinate; an entity whose squared
\* displacement is not below min_moved counts as moved, and when no more
\* than recreate_after entities moved it is patched by remove_entity
\* followed by add_point of its new position.
C10_ThresholdPolicyAsStated ==
    ret.op = "frame" =>
        /\ (CallsOf("recreate") # {}) <=> (Cardinality(Reached) > recreate_after)
        /\ \A e \in ret.changed :
              IF Displacement(e) < min_moved
              THEN LeftAlone(e, TRUE)
              ELSE Cardinality(Reached) <= recreate_after => Patched(e)

\* C10 amended: as stated, except that the entry of an entity below the
\* threshold stays at the last committed coordinate only in a frame that
\* does not rebuild the index; a frame that rebuilds it (because more than
\* recreate_after other entities moved) puts the entry at the entity's
\* current position.
C10_ThresholdPolicy ==
    ret.op = "frame" =>
        /\ (CallsOf("recreate") # {}) <=> (Cardinality(Reached) > recreate_after)
        /\ \A e \in ret.changed :
              IF Displacement(e) < min_moved
              THEN /\ LeftAlone(e, CallsOf("recreate") = {})
                   /\ CallsOf("recreate") # {} =>
                          /\ EntriesOf(tree, e) = 1
                          /\ tree.root[Elem(<<pos[e], e>>)] = 1
              ELSE Cardinality(Reached) <= recreate_after => Patched(e)

\* C10: in one frame an entity moved by less than the threshold and was
\* left alone while another one moved by more and was patched.
C10_Witness ==
    /\ ret.op = "frame"
    /\ CallsOf("recreate") = {}
    /\ \E e \in ret.changed :
          /\ Displacement(e) > 0
          /\ Displacement(e) < min_moved
          /\ PatchCalls(e) = {}
    /\ \E e \in ret.changed :
          /\ Displacement(e) > min_moved
          /\ Cardinality(PatchCalls(e)) = 2

====
